---- MODULE Spec2Model ----
(***************************************************************************)
(* Model of app/batid/services/data_gouv_publication.py: the publication   *)
(* of RNB exports on data.gouv.fr.                                         *)
(*                                                                         *)
(* Several publish(areas_list) calls (task-queue jobs) run concurrently.   *)
(* They share the working directory of the filesystem, the object-storage  *)
(* bucket and the resource list of the data.gouv.fr dataset.  Each step of *)
(* a job that touches one of these is one action.                          *)
(***************************************************************************)
EXTENDS Integers, Sequences, FiniteSets, TLC

VARIABLES
    now,      \* datetime.now(), in whole seconds (the resolution of strftime)
    fs,       \* the working directory: name of each directory -> its files
    bucket,   \* the S3 bucket: key of each object -> the file stored
    portal,   \* the dataset's resource list on data.gouv.fr
    job,      \* per job: the frame of its publish() call
    trace,    \* per job: the stages of its current area that returned
    sent,     \* per job: the POST/PUT requests of its current area, until cleanup
    foreign,  \* accesses by a job to a directory another job created
    sizeIn,   \* upload_to_s3: the archive size under test
    sizeOut,  \* upload_to_s3: the part size computed for it
    taskIn,   \* get_area_publish_task: the areas a caller asks about, in turn
    taskOut   \* get_area_publish_task: what each call returned or raised

pipeVars == <<now, fs, bucket, portal, job, trace, sent, foreign>>
sizeVars == <<sizeIn, sizeOut>>
taskVars == <<taskIn, taskOut>>
helperVars == <<sizeIn, sizeOut, taskIn, taskOut>>
vars == <<now, fs, bucket, portal, job, trace, sent, foreign,
          sizeIn, sizeOut, taskIn, taskOut>>

----------------------------------------------------------------------------
(* Bounds *)

MaxAreas == 2        \* longest areas_list
MaxRuns == 2         \* areas submitted in total, over all calls (Spec)
BatchRuns == 3       \* the same, in SpecBatch
MaxTime == 1         \* the clock runs over 0..MaxTime seconds
MaxData == 2         \* distinct database snapshots an export can see
MaxArchiveSize == 5000   \* largest archive size tried, in bytes
MaxCalls == 3        \* longest series of get_area_publish_task calls

\* two publish() calls running concurrently, as two task-queue jobs do
Jobs == {"job1", "job2"}
Areas == {"nat", "75"}
Data == 1..MaxData

AreaLists == UNION {[1..n -> Areas] : n \in 0..MaxAreas}

None == "None"          \* Python's None
Unbound == <<>>         \* a local variable not assigned yet
NoExc == <<>>           \* no exception in flight

----------------------------------------------------------------------------
(* Names, paths and file contents *)

\* f'datagouvfr_publication_{area}_{now:%Y-%m-%d_%H-%M-%S}': one name per
\* area and second.
DirectoryName(area, t) == <<"datagouvfr_publication", area, t>>

\* directory_name + "/RNB_" + str(code_area), without extension
file_path(directory_name, code_area) ==
    <<directory_name, "RNB_" \o code_area>>

\* the CSV the COPY statement writes for an area from database snapshot d
CsvFile(code_area, d) == [area |-> code_area, rows |-> d]

\* the zip archive holding one entry RNB_{area}.csv
ZipFile(code_area, csv) ==
    [entry |-> "RNB_" \o code_area \o ".csv", content |-> csv]

\* an archive whose entry was not written
EmptyZip(code_area) == [entry |-> "", content |-> CsvFile(code_area, 0)]

getsize(file) == file.content.rows
sha1sum(file) == <<"sha1", file.entry, file.content>>

\* f"{path}{ext}": a path is kept as <<directory, file name>>
WithExt(path, ext) == <<path[1], path[2] \o ext>>

\* os.path.basename(archive_path): the directory is dropped
basename(path) == path[2]

path_on_bucket(archive_path) == "opendata/" \o basename(archive_path)

PublicUrl(key) == "https://bucket.s3.region.scw.cloud/" \o key

Title(area) ==
    IF area = "nat" THEN "Export National"
    ELSE "Export Départemental " \o area

----------------------------------------------------------------------------
(* data.gouv.fr *)

\* the JSON body of the POST and of the PUT
ResourcePayload(title, public_url, archive_size, archive_sha1, format) ==
    [title |-> title, url |-> public_url, format |-> format,
     filesize |-> archive_size,
     checksum |-> [type |-> "sha1", value |-> archive_sha1]]

Resource(id, payload) ==
    [id |-> "r" \o ToString(id), title |-> payload.title, url |-> payload.url,
     format |-> payload.format, filesize |-> payload.filesize,
     checksum |-> payload.checksum]

Matches(resource, area) ==
    /\ resource.format = "zip"
    /\ \/ area = "nat" /\ resource.title = "Export National"
       \/ area # "nat" /\ resource.title = "Export Départemental " \o area

\* the lookup matching on the title alone
data_gouv_resource_id_any_format(resources, area) ==
    LET hits == {k \in 1..Len(resources) :
                    \/ area = "nat" /\ resources[k].title = "Export National"
                    \/ area # "nat" /\ resources[k].title
                                         = "Export Départemental " \o area}
    IN IF hits = {} THEN None
       ELSE resources[CHOOSE k \in hits : \A m \in hits : k <= m].id

\* the id of the first resource of the list that matches, or None
data_gouv_resource_id(resources, area) ==
    LET hits == {k \in 1..Len(resources) : Matches(resources[k], area)}
    IN IF hits = {} THEN None
       ELSE resources[CHOOSE k \in hits : \A m \in hits : k <= m].id

\* the portal serving a POST: a new resource with a fresh id
PortalCreate(resources, payload) ==
    Append(resources, Resource(Len(resources) + 1, payload))

\* the portal serving a PUT on resource_id
PortalUpdate(resources, resource_id, payload) ==
    [k \in 1..Len(resources) |->
        IF resources[k].id = resource_id
        THEN [Resource(k, payload) EXCEPT !.id = resource_id]
        ELSE resources[k]]

LegacyPayload(title, format) ==
    ResourcePayload(title, "https://legacy", 0, "legacy", format)

\* the dataset as earlier publications left it: the national export in two
\* formats, no departmental export yet
InitialPortal ==
    << Resource(1, LegacyPayload("Export National", "csv")),
       Resource(2, LegacyPayload("Export National", "zip")) >>

----------------------------------------------------------------------------
(* publish(areas_list): control flow *)

\* publish calling publish_on_data_gouv without uploading first
StageAfterNoUpload(stage) ==
    CASE stage = "create_directory" -> "create_csv"
      [] stage = "create_csv" -> "create_archive"
      [] stage = "create_archive" -> "data_gouv_resource_id"
      [] stage = "upload_to_s3" -> "data_gouv_resource_id"
      [] stage = "data_gouv_resource_id" -> "update_or_create"
      [] stage = "update_or_create" -> "cleanup_directory"

\* the statement that follows a stage of the try block that did not raise
StageAfter(stage) ==
    CASE stage = "create_directory" -> "create_csv"
      [] stage = "create_csv" -> "create_archive"
      [] stage = "create_archive" -> "upload_to_s3"
      [] stage = "upload_to_s3" -> "data_gouv_resource_id"
      [] stage = "data_gouv_resource_id" -> "update_or_create"
      [] stage = "update_or_create" -> "cleanup_directory"

\* publish without its finally clause: a stage that raises ends the call
StageOutcomeNoFinally(stage, ok) ==
    IF ok THEN StageAfter(stage) ELSE "done"

\* data_gouv_resource_id without its status check: a failed fetch goes on
StageOutcomeNoStatusCheck(stage, ok) ==
    IF ok \/ stage = "data_gouv_resource_id" THEN StageAfter(stage)
    ELSE "cleanup_directory"

\* where control goes when a stage returns (ok) or raises: an exception
\* reaches the except clause, which re-raises, so the finally clause runs
StageOutcome(stage, ok) ==
    IF ok THEN StageAfter(stage) ELSE "cleanup_directory"

\* an except clause that logs and does not re-raise
PropagatesNever(exc) == FALSE

\* `raise` in the except clause: the exception leaves publish
Propagates(exc) == exc # NoExc

\* shutil.rmtree on an existing directory
cleanup_directory(files, directory_name) ==
    [d \in DOMAIN files \ {directory_name} |-> files[d]]

NewJob ==
    [pc |-> "idle", areas_list |-> <<>>, pos |-> 0,
     directory_name |-> Unbound, archive |-> Unbound,
     public_url |-> "unbound", resources |-> <<>>, resource_id |-> "unbound",
     exc |-> NoExc, result |-> "none"]

Area(j) == job[j].areas_list[job[j].pos]
Run(j) == <<j, job[j].pos>>

\* the locals of an iteration that are dead once it is over: each is
\* assigned before it is read.  directory_name is not one of them: the
\* finally clause reads it even when create_directory raised.
EndIteration(frame) ==
    [frame EXCEPT !.archive = Unbound, !.public_url = "unbound",
                  !.resources = <<>>, !.resource_id = "unbound"]

\* publish is left: its frame is gone
Leave(frame, result) ==
    [EndIteration(frame) EXCEPT !.pc = "done", !.result = result,
                                !.directory_name = Unbound]

\* the for statement: the next area of the list, or `return True`
ForNext(frame) ==
    IF frame.pos < Len(frame.areas_list)
    THEN [EndIteration(frame) EXCEPT !.pos = @ + 1, !.pc = "create_directory"]
    ELSE Leave(frame, "True")

\* an exception leaves publish: the one in flight, else the one `stage` raised
Raised(frame, stage) ==
    Leave([frame EXCEPT !.exc = IF @ = NoExc THEN <<frame.pos, stage>> ELSE @],
          "raised")

Log(j, stage) ==
    trace' = [trace EXCEPT ![j] = Append(@, <<job[j].pos, stage>>)]

\* a stage returned, having assigned `fields`
Return(j, stage, fields) ==
    /\ job' = [job EXCEPT ![j] =
                 [f \in DOMAIN @ |->
                    IF f = "pc" THEN StageOutcome(stage, TRUE)
                    ELSE IF f \in DOMAIN fields THEN fields[f] ELSE @[f]]]
    /\ Log(j, stage)

\* a stage raised
Raise(j, stage) ==
    /\ job' = [job EXCEPT ![j].pc = StageOutcome(stage, FALSE),
                          ![j].exc = <<job[j].pos, stage>>]
    /\ UNCHANGED trace

\* record the access when the directory was created by another job
Touch(j, directory_name, op) ==
    IF fs[directory_name].owner[1] # j
    THEN foreign' = foreign \cup
            {[job |-> j, op |-> op, owner |-> fs[directory_name].owner[1]]}
    ELSE UNCHANGED foreign

WriteFile(directory_name, name, content) ==
    [fs EXCEPT ![directory_name].files = (name :> content) @@ @]

----------------------------------------------------------------------------
(* publish(areas_list): one action per stage *)

RECURSIVE Sum(_, _)
Sum(f, S) == IF S = {} THEN 0
             ELSE LET x == CHOOSE x \in S : TRUE IN f[x] + Sum(f, S \ {x})

\* the areas submitted so far
Submitted == Sum([j \in Jobs |-> Len(job[j].areas_list)], Jobs)

\* a job calls publish(areas_list); at most `cap` areas are submitted in all
Publish(j, cap) ==
    /\ job[j].pc = "idle"
    /\ \E areas_list \in AreaLists :
          /\ Submitted + Len(areas_list) <= cap
          /\ job' = [job EXCEPT ![j] = ForNext([@ EXCEPT !.areas_list = areas_list])]
    /\ UNCHANGED <<now, fs, bucket, portal, trace, sent, foreign, helperVars>>

\* os.mkdir raises when the name is taken, and may raise otherwise
CreateDirectory(j) ==
    /\ job[j].pc = "create_directory"
    /\ LET name == DirectoryName(Area(j), now) IN
          \/ /\ name \notin DOMAIN fs
             /\ fs' = (name :> [owner |-> Run(j), files |-> <<>>]) @@ fs
             /\ Return(j, "create_directory", [directory_name |-> name])
          \/ /\ Raise(j, "create_directory")
             /\ UNCHANGED fs
    /\ UNCHANGED <<now, bucket, portal, sent, foreign, helperVars>>

\* open(..., "w") creates the file; the COPY fills it from the database
CreateCsv(j) ==
    /\ job[j].pc = "create_csv"
    /\ LET d == job[j].directory_name
           name == WithExt(file_path(d, Area(j)), ".csv")[2]
       IN IF d \in DOMAIN fs
          THEN /\ Touch(j, d, "write")
               /\ \/ \E data \in Data :
                        /\ fs' = WriteFile(d, name, CsvFile(Area(j), data))
                        /\ Return(j, "create_csv", <<>>)
                  \/ /\ fs' = WriteFile(d, name, CsvFile(Area(j), 0))
                     /\ Raise(j, "create_csv")
          ELSE /\ Raise(j, "create_csv")
               /\ UNCHANGED <<fs, foreign>>
    /\ UNCHANGED <<now, bucket, portal, sent, helperVars>>

\* os.listdir raises without the directory; ZipFile(archive_path, "w") then
\* creates the archive, and zip.write raises without the CSV or on an I/O
\* error, leaving the archive without its entry
CreateArchive(j) ==
    /\ job[j].pc = "create_archive"
    /\ LET d == job[j].directory_name
           archive_path == WithExt(file_path(d, Area(j)), ".csv.zip")
           csv == WithExt(file_path(d, Area(j)), ".csv")[2]
       IN IF d \in DOMAIN fs
          THEN /\ Touch(j, d, "archive")
               /\ \/ /\ csv \in DOMAIN fs[d].files
                     /\ LET zip == ZipFile(Area(j), fs[d].files[csv]) IN
                           /\ fs' = WriteFile(d, archive_path[2], zip)
                           /\ Return(j, "create_archive",
                                [archive |-> <<archive_path, getsize(zip),
                                              sha1sum(zip)>>])
                  \/ /\ fs' = WriteFile(d, archive_path[2], EmptyZip(Area(j)))
                     /\ Raise(j, "create_archive")
          ELSE /\ Raise(j, "create_archive")
               /\ UNCHANGED <<fs, foreign>>
    /\ UNCHANGED <<now, bucket, portal, sent, helperVars>>

\* getsize, s3.upload_file, then the object_exists waiter
UploadToS3(j) ==
    /\ job[j].pc = "upload_to_s3"
    /\ LET archive_path == job[j].archive[1]
           d == archive_path[1]
           key == path_on_bucket(archive_path)
       IN IF d \in DOMAIN fs /\ archive_path[2] \in DOMAIN fs[d].files
          THEN /\ Touch(j, d, "upload")
               /\ \/ /\ Raise(j, "upload_to_s3")
                     /\ UNCHANGED bucket
                  \/ /\ bucket' = (key :> fs[d].files[archive_path[2]]) @@ bucket
                     /\ \/ Raise(j, "upload_to_s3")
                        \/ Return(j, "upload_to_s3", [public_url |-> PublicUrl(key)])
          ELSE /\ Raise(j, "upload_to_s3")
               /\ UNCHANGED <<bucket, foreign>>
    /\ UNCHANGED <<now, fs, portal, sent, helperVars>>

\* requests.get(dataset_url): the resource list, or a status other than 200
FetchDataset(j) ==
    /\ job[j].pc = "data_gouv_resource_id"
    /\ \/ Return(j, "data_gouv_resource_id",
             [resources |-> portal,
              resource_id |-> data_gouv_resource_id(portal, Area(j))])
       \/ Raise(j, "data_gouv_resource_id")
    /\ UNCHANGED <<now, fs, bucket, portal, sent, foreign, helperVars>>

\* update_resource_metadata (PUT) or data_gouv_create_resource (POST)
UpdateOrCreate(j) ==
    /\ job[j].pc = "update_or_create"
    /\ LET payload == ResourcePayload(Title(Area(j)), job[j].public_url,
                                      job[j].archive[2], job[j].archive[3], "zip")
           update == job[j].resource_id # None
           request == [pos |-> job[j].pos,
                       method |-> IF update THEN "PUT" ELSE "POST",
                       target |-> job[j].resource_id,
                       json |-> payload]
       IN /\ sent' = [sent EXCEPT ![j] = Append(@, request)]
          /\ \/ /\ portal' = IF update
                             THEN PortalUpdate(portal, job[j].resource_id, payload)
                             ELSE PortalCreate(portal, payload)
                /\ Return(j, "update_or_create", <<>>)
             \/ /\ Raise(j, "update_or_create")
                /\ UNCHANGED portal
    /\ UNCHANGED <<now, fs, bucket, foreign, helperVars>>

\* the finally clause: cleanup_directory(directory_name).  It raises
\* UnboundLocalError when directory_name was never assigned and
\* FileNotFoundError when the directory is gone; the trace records that the
\* clause ran either way.
Cleanup(j) ==
    /\ job[j].pc = "cleanup_directory"
    /\ LET d == job[j].directory_name IN
          IF d # Unbound /\ d \in DOMAIN fs
          THEN /\ fs' = cleanup_directory(fs, d)
               /\ Touch(j, d, "remove")
               /\ job' = [job EXCEPT ![j] =
                            IF Propagates(@.exc)
                            THEN Raised(@, "cleanup_directory")
                            ELSE ForNext(@)]
          ELSE /\ job' = [job EXCEPT ![j] = Raised(@, "cleanup_directory")]
               /\ UNCHANGED <<fs, foreign>>
    /\ trace' = [trace EXCEPT ![j] = IF job'[j].pc = "create_directory" THEN <<>>
                                     ELSE Append(@, <<job[j].pos, "cleanup_directory">>)]
    /\ sent' = [sent EXCEPT ![j] = <<>>]
    /\ UNCHANGED <<now, bucket, portal, helperVars>>

\* a second passes
Tick ==
    /\ now < MaxTime
    /\ now' = now + 1
    /\ UNCHANGED <<fs, bucket, portal, job, trace, sent, foreign, helperVars>>

Init ==
    /\ now = 0
    /\ fs = <<>>
    /\ bucket = <<>>
    /\ portal = InitialPortal
    /\ job = [j \in Jobs |-> NewJob]
    /\ trace = [j \in Jobs |-> <<>>]
    /\ sent = [j \in Jobs |-> <<>>]
    /\ foreign = {}
    /\ sizeIn = 0 /\ sizeOut = 0
    /\ taskIn = <<>> /\ taskOut = <<>>

Step(j, cap) ==
    \/ Publish(j, cap)
    \/ CreateDirectory(j)
    \/ CreateCsv(j)
    \/ CreateArchive(j)
    \/ UploadToS3(j)
    \/ FetchDataset(j)
    \/ UpdateOrCreate(j)
    \/ Cleanup(j)

Next ==
    \/ Tick
    \/ \E j \in Jobs : Step(j, MaxRuns)

Spec == Init /\ [][Next]_vars

NextBatch ==
    \/ Tick
    \/ \E j \in Jobs : Step(j, BatchRuns)

\* the same jobs, with room for a two-area batch beside a one-area job
SpecBatch == Init /\ [][NextBatch]_vars

----------------------------------------------------------------------------
(* upload_to_s3: the multipart part size *)

\* Scaleway S3's maximum number of parts for multipart upload
MAX_PARTS == 1000

\* max(1, int(archive_size * 1.2 / MAX_PARTS)): int() truncates; the
\* integer quotient equals the floating-point result for every size tried
part_size(archive_size) ==
    LET q == (archive_size * 12) \div (10 * MAX_PARTS)
    IN IF q > 1 THEN q ELSE 1

\* the parts a transfer of archive_size bytes in chunks of chunk bytes takes
NumParts(archive_size, chunk) == (archive_size + chunk - 1) \div chunk

InitPartSize ==
    /\ sizeIn \in 0..MaxArchiveSize
    /\ sizeOut = 0
    /\ now = 0 /\ fs = <<>> /\ bucket = <<>> /\ portal = InitialPortal
    /\ job = [j \in Jobs |-> NewJob]
    /\ trace = [j \in Jobs |-> <<>>] /\ sent = [j \in Jobs |-> <<>>]
    /\ foreign = {}
    /\ taskIn = <<>> /\ taskOut = <<>>

\* upload_to_s3 computes the part size of the archive
ComputePartSize ==
    /\ sizeOut = 0
    /\ sizeOut' = part_size(sizeIn)
    /\ UNCHANGED <<sizeIn, pipeVars, taskVars>>

SpecPartSize == InitPartSize /\ [][ComputePartSize]_vars

----------------------------------------------------------------------------
(* get_area_publish_task *)

\* batid.services.administrative_areas.dpts_list(): the department codes
dpts_list == {"01", "2A", "75", "974"}

\* the area values a caller may pass
TaskAreas == {"nat", "75", "2A", "XX", "NAT", ""}

Signature(task, args) == [task |-> task, args |-> args, immutable |-> TRUE]

ValueError(message) == [raised |-> "ValueError", message |-> message]

\* the lookup without its validation of the area
get_area_publish_task_unchecked(area) ==
    IF area = "nat"
    THEN Signature("batid.tasks.publish_datagouv_national", <<>>)
    ELSE Signature("batid.tasks.publish_datagouv_dpt", <<area>>)

\* the message is kept as the pieces the f-string joins
get_area_publish_task(area) ==
    IF area = "nat"
    THEN Signature("batid.tasks.publish_datagouv_national", <<>>)
    ELSE IF area \in dpts_list
    THEN Signature("batid.tasks.publish_datagouv_dpt", <<area>>)
    ELSE ValueError(<<"Unknown area: ", area,
                      ". It must be either 'nat' or a department code. '",
                      area, "' given.">>)

InitTasks ==
    /\ taskIn \in UNION {[1..n -> TaskAreas] : n \in 1..MaxCalls}
    /\ taskOut = <<>>
    /\ now = 0 /\ fs = <<>> /\ bucket = <<>> /\ portal = InitialPortal
    /\ job = [j \in Jobs |-> NewJob]
    /\ trace = [j \in Jobs |-> <<>>] /\ sent = [j \in Jobs |-> <<>>]
    /\ foreign = {}
    /\ sizeIn = 0 /\ sizeOut = 0

\* the caller asks for the task of the next area of its series
CallGetAreaPublishTask ==
    /\ Len(taskOut) < Len(taskIn)
    /\ taskOut' = Append(taskOut, get_area_publish_task(taskIn[Len(taskOut) + 1]))
    /\ UNCHANGED <<taskIn, pipeVars, sizeVars>>

SpecTasks == InitTasks /\ [][CallGetAreaPublishTask]_vars

----------------------------------------------------------------------------
(* Properties *)

Last(seq) == seq[Len(seq)]
StagesOf(j) == [k \in 1..Len(trace[j]) |-> trace[j][k][2]]
Finished(j) == job[j].pc = "done"
OwnedBy(j) == {d \in DOMAIN fs : fs[d].owner[1] = j}

TryStages ==
    <<"create_directory", "create_csv", "create_archive", "upload_to_s3",
      "data_gouv_resource_id", "update_or_create">>

ExpectedTitle(area) ==
    IF area = "nat" THEN "Export National" ELSE "Export Départemental " \o area

ExpectedKey(area) == "opendata/RNB_" \o area \o ".csv.zip"

\* C1: once publish has returned or raised, no directory that call created
\* exists, whichever stage failed.
C1_NoDirectoryLeft ==
    \A j \in Jobs : Finished(j) => OwnedBy(j) = {}

\* a call that created its directory and raised in a later stage is over
C1_Witness ==
    \E j \in Jobs :
        /\ Finished(j)
        /\ job[j].result = "raised"
        /\ job[j].exc # NoExc
        /\ job[j].exc[2] = "upload_to_s3"

\* C2: the dataset never holds two zip resources with one area's title.
C2_AtMostOneResourcePerArea ==
    \A a \in Areas :
        Cardinality({k \in 1..Len(portal) :
                        /\ portal[k].format = "zip"
                        /\ portal[k].title = ExpectedTitle(a)}) <= 1

InProgress(a) ==
    \E j \in Jobs :
        /\ job[j].pc \notin {"idle", "done"}
        /\ job[j].areas_list[job[j].pos] = a

\* C3: while no job is publishing an area, the url, filesize and checksum of
\* the area's resource are those of the archive last uploaded for the area.
C3_ResourceReflectsLastUpload ==
    \A a \in Areas :
        (~InProgress(a) /\ ExpectedKey(a) \in DOMAIN bucket) =>
            \A k \in 1..Len(portal) :
                (portal[k].format = "zip" /\ portal[k].title = ExpectedTitle(a)) =>
                    /\ portal[k].url = PublicUrl(ExpectedKey(a))
                    /\ portal[k].filesize = getsize(bucket[ExpectedKey(a)])
                    /\ portal[k].checksum.value = sha1sum(bucket[ExpectedKey(a)])

\* the resources of the fetched list that are the area's zip export
ListedFor(j) ==
    {k \in 1..Len(job[j].resources) :
        /\ job[j].resources[k].format = "zip"
        /\ job[j].resources[k].title = ExpectedTitle(job[j].areas_list[job[j].pos])}

\* C4: publish_on_data_gouv issues one mutating request: a PUT on the listed
\* zip resource with the area's title when there is one and no POST, else one
\* POST with that title, format zip and a sha1 checksum and no PUT; none
\* before the list is fetched.
C4_OneUpdateOrOneCreate ==
    \A j \in Jobs :
        /\ job[j].pc = "update_or_create" => sent[j] = <<>>
        /\ ( /\ job[j].pc = "cleanup_directory"
             /\ "data_gouv_resource_id" \in {StagesOf(j)[k] : k \in 1..Len(trace[j])}
             /\ job[j].exc = NoExc \/ job[j].exc[2] = "update_or_create" )
           => /\ Len(sent[j]) = 1
              /\ IF ListedFor(j) # {}
                 THEN /\ sent[j][1].method = "PUT"
                      /\ sent[j][1].target \in
                            {job[j].resources[k].id : k \in ListedFor(j)}
                 ELSE /\ sent[j][1].method = "POST"
                      /\ sent[j][1].json.title
                            = ExpectedTitle(job[j].areas_list[job[j].pos])
                      /\ sent[j][1].json.format = "zip"
                      /\ sent[j][1].json.checksum.type = "sha1"

\* an update of the listed zip resource, beside a resource of another format
\* with the same title, has been issued
C4_Witness ==
    \E j \in Jobs :
        /\ job[j].pc = "cleanup_directory"
        /\ Len(sent[j]) = 1
        /\ sent[j][1].method = "PUT"
        /\ sent[j][1].target = "r2"

\* C5: a failure at position N leaves publish after the cleanup of N has run,
\* nothing of a later position runs, and True is returned only when nothing
\* was raised.
C5_FailureAbortsBatch ==
    \A j \in Jobs : Finished(j) =>
        /\ job[j].result = "True" =>
              /\ job[j].exc = NoExc
              /\ job[j].pos = Len(job[j].areas_list)
        /\ job[j].exc # NoExc =>
              /\ job[j].result = "raised"
              /\ job[j].pos = job[j].exc[1]
              /\ trace[j] # <<>>
              /\ Last(trace[j]) = <<job[j].exc[1], "cleanup_directory">>
              /\ \A k \in 1..Len(trace[j]) : trace[j][k][1] <= job[j].exc[1]
              /\ \A d \in DOMAIN fs :
                    fs[d].owner[1] = j => fs[d].owner[2] <= job[j].exc[1]

\* a batch of two areas has raised at its first area
C5_Witness ==
    \E j \in Jobs :
        /\ Finished(j)
        /\ job[j].result = "raised"
        /\ job[j].exc # NoExc
        /\ job[j].exc[2] = "create_csv"
        /\ job[j].exc[1] < Len(job[j].areas_list)

\* C6: the part size splits every archive into at most 1000 parts.
C6_AtMostMaxParts ==
    sizeOut # 0 => NumParts(sizeIn, sizeOut) <= 1000

\* C7: the national task without arguments for "nat", the departmental task
\* with [area] for a known department, an error naming the area otherwise.
C7_TaskOfArea ==
    \A k \in 1..Len(taskOut) :
        LET area == taskIn[k]
            got == taskOut[k]
        IN IF area = "nat"
           THEN /\ "raised" \notin DOMAIN got
                /\ got.task = "batid.tasks.publish_datagouv_national"
                /\ got.args = <<>>
           ELSE IF area \in {"01", "2A", "75", "974"}
           THEN /\ "raised" \notin DOMAIN got
                /\ got.task = "batid.tasks.publish_datagouv_dpt"
                /\ got.args = <<area>>
           ELSE /\ "raised" \in DOMAIN got
                /\ "task" \notin DOMAIN got
                /\ \E m \in 1..Len(got.message) : got.message[m] = area

\* a series with the national area, a department and an unknown area is served
C7_Witness ==
    /\ Len(taskOut) = 3
    /\ taskIn = <<"nat", "75", "XX">>

\* C8: no job writes into, archives from, uploads from or removes a
\* directory that another job created.
C8_NoForeignDirectory ==
    foreign = {}

\* C9: the stages of an area run in the order of the try block, then the
\* cleanup; a request is sent only after upload_to_s3 has returned, with the
\* url, size and checksum of the archive of this area.
C9_StageOrder ==
    \A j \in Jobs :
        /\ \E n \in 0..Len(TryStages) :
              \/ StagesOf(j) = SubSeq(TryStages, 1, n)
              \/ StagesOf(j) = Append(SubSeq(TryStages, 1, n), "cleanup_directory")
        /\ \A k \in 1..Len(trace[j]) : trace[j][k][1] = job[j].pos
        /\ sent[j] # <<>> =>
              /\ "upload_to_s3" \in {StagesOf(j)[k] : k \in 1..Len(trace[j])}
              /\ \A k \in 1..Len(sent[j]) :
                    /\ sent[j][k].json.url
                          = PublicUrl(ExpectedKey(job[j].areas_list[job[j].pos]))
                    /\ sent[j][k].json.url = job[j].public_url
                    /\ sent[j][k].json.filesize = job[j].archive[2]
                    /\ sent[j][k].json.checksum.value = job[j].archive[3]

\* the request of the second area of a batch has been sent
C9_Witness ==
    \E j \in Jobs :
        /\ job[j].pos = 2
        /\ Len(sent[j]) = 1
        /\ job[j].exc = NoExc

PreMutationStages ==
    {"create_directory", "create_csv", "create_archive", "upload_to_s3",
     "data_gouv_resource_id"}

\* C10: when a stage before the portal mutation fails, the run has sent no
\* POST or PUT; and the resource list changes only with a request being sent.
C10_NoRequestAfterEarlyFailure ==
    /\ [](\A j \in Jobs :
            (job[j].exc # NoExc /\ job[j].pc # "done") =>
                (job[j].exc[2] \in PreMutationStages => sent[j] = <<>>))
    /\ [][portal' # portal =>
            \E j \in Jobs : /\ job[j].pc = "update_or_create"
                            /\ Len(sent'[j]) = Len(sent[j]) + 1]_vars

\* the fetch of the dataset has failed
C10_Witness ==
    \E j \in Jobs :
        /\ job[j].pc = "cleanup_directory"
        /\ job[j].exc # NoExc
        /\ job[j].exc[2] = "data_gouv_resource_id"

====
